---- MODULE Spec2Model ----
(***************************************************************************)
(* A model of the Reddit crawler of CommProbe: RedditLegalCrawler          *)
(* (src/reddit_crawler.py) and its serverless twin LambdaRedditCrawler     *)
(* (src/infra/aws/lambda/collector/index.py).                              *)
(*                                                                         *)
(* Part 1: the rate governor (_load_rate_limit_data, _check_rate_limit,    *)
(*         _handle_rate_limit_error, _save_rate_limit_data).               *)
(*                                                                         *)
(* Part 2: the comment tree (_fetch_comment_tree).                         *)
(* Part 3: a run (run_full_crawl with crawl_subreddit and search_keywords).*)
(*                                                                         *)
(* Time.  The code reads the wall clock for three things: the calendar     *)
(* date (day reset), the backoff deadline and the per-minute pacing.  The  *)
(* calendar date is the variable today.  The backoff deadline is kept as   *)
(* backoff_wait = max(0, backoff_until - time.time()).  The per-minute     *)
(* pacing only sleeps and changes no other state; it is not modelled.      *)
(***************************************************************************)
EXTENDS Integers, Sequences, FiniteSets, TLC

VARIABLES
    today,            \* the current calendar day (UTC), as a day number
    rate_limit_file,  \* the persisted rate-limit state (file or S3 object)
    rate_limit_data,  \* self.rate_limit_data of the running process
    request_count,    \* self.request_count
    backoff_wait,     \* max(0, self.backoff_until - time.time())
    backoff_seconds,  \* the last wait of _handle_rate_limit_error in this run (0: none)
    ret,              \* what the last _check_rate_limit call returned
    last_op,          \* the operation the last step performed
    gpc,              \* the governor process: "idle" (no process) or "running"
    runs,             \* number of processes started so far
    forest,           \* the comment forest the Source holds for one post
    preserve_context, \* the setting PRESERVE_CONTEXT
    comment_records,  \* the comment record of the post's scope (id -> entry)
    comments_out,     \* post_data["comments"] of the last traversal
    tmode,            \* the last traversal: "none", "browse" or "search"
    tincr,            \* the last traversal's incremental flag
    tnow,             \* traversals made so far (the clock of last_seen)
    edits,            \* changes the Source has seen since the first traversal
    pc,               \* where the run is (see Part 3)
    sub,              \* index of the subreddit being crawled
    li,               \* index of the listing type being fetched
    ki,               \* index of the keyword being searched
    pi,               \* position of the next post in the listing or search result
    post_count,       \* post_count of crawl_subreddit
    run_incremental,  \* the incremental argument of run_full_crawl
    collected_posts,  \* collected_posts of the pass in progress
    all_posts,        \* all_data["posts"] before the merge
    result,           \* all_data["posts"] as run_full_crawl returns it
    record,           \* self.record
    record_file,      \* the persisted crawl record
    max_comment_depth,\* self.MAX_COMMENT_DEPTH
    source_requests,  \* requests sent to the Source in this run
    denied,           \* a _check_rate_limit call of this run has returned False
    accumulated,      \* ids of the posts appended to collected_posts in this run
    faults,           \* Source failures so far in this run
    passes,           \* the lists of posts the passes of this run returned, in order
    content,          \* two items handed to _get_content_hash
    content_hash,     \* what _get_content_hash returned for them (<<>>: not called)
    committed,        \* the persisted record and rate-limit state when the Lambda
                      \* crawler was constructed, and how the reads of them went
                      \* (<<>>: none constructed)
    tw_pc,            \* where collect_tweets is (see Part 7)
    qi,               \* index of the query in self.search_queries
    retry_count,      \* retry_count of the query in progress
    rate_limit_hit,   \* self.rate_limit_hit
    elapsed,          \* time since self.start_time
    queries_processed,\* queries_processed
    tried             \* per query, the outcomes of its calls of _search_recent_tweets

gvars == <<today, rate_limit_file, rate_limit_data, request_count, backoff_wait,
           backoff_seconds, ret, last_op, gpc, runs>>

tvars == <<forest, preserve_context, comment_records, comments_out, tmode, tincr,
           tnow, edits>>

rvars == <<pc, sub, li, ki, pi, post_count, run_incremental, collected_posts, all_posts,
           result, record, record_file, max_comment_depth, source_requests, denied,
           accumulated, faults>>

mvars == <<passes>>

hvars == <<content, content_hash>>

lvars == <<committed>>

wvars == <<tw_pc, qi, retry_count, rate_limit_hit, elapsed, queries_processed, tried>>

vars == <<gvars, tvars, rvars, mvars, hvars, lvars, wvars>>

----------------------------------------------------------------------------
(* Program constants *)

MAX_REQUESTS_PER_DAY == 1000
SAVE_EVERY == 10
BACKOFF_BASE == 30
MAX_BACKOFF_MULTIPLIER == 16
MAX_JITTER == 30

(* Bounds of the model *)

MaxDay == 2       \* calendar days 0..MaxDay
MaxRuns == 2      \* processes started in one behaviour
MaxCalls == 11    \* admitted calls per process
MaxHits == 5      \* rate_limit_hits is not driven beyond this

----------------------------------------------------------------------------
(* Persisted state *)

NoFile == [exists |-> FALSE]

RateData(d, r, h) == [daily_requests |-> d, last_reset |-> r, rate_limit_hits |-> h]

\* The default of _load_rate_limit_data when nothing is persisted.
DefaultRateData(day) == RateData(0, day, 0)

Pow2(n) == IF n <= 0 THEN 1 ELSE 2 ^ n

Min(a, b) == IF a <= b THEN a ELSE b

\* A variant that resets whenever the current date is not earlier than last_reset.
LoadRateLimitData_ResetSameDay(file, day) ==
    IF file = NoFile
    THEN DefaultRateData(day)
    ELSE IF day >= file.last_reset
         THEN RateData(0, day, file.rate_limit_hits)
         ELSE RateData(file.daily_requests, file.last_reset, file.rate_limit_hits)

\* A variant whose new-day reset also clears rate_limit_hits.
LoadRateLimitData_NewDayClearsHits(file, day) ==
    IF file = NoFile
    THEN DefaultRateData(day)
    ELSE IF day > file.last_reset
         THEN DefaultRateData(day)
         ELSE RateData(file.daily_requests, file.last_reset, file.rate_limit_hits)

\* _load_rate_limit_data: read the persisted state; reset the daily counter when
\* the current date is later than the date of last_reset.
LoadRateLimitData(file, day) ==
    IF file = NoFile
    THEN DefaultRateData(day)
    ELSE IF day > file.last_reset
         THEN RateData(0, day, file.rate_limit_hits)
         ELSE RateData(file.daily_requests, file.last_reset, file.rate_limit_hits)

\* _save_rate_limit_data: the whole in-memory dictionary replaces the persisted one.
SaveRateLimitData(data) == data

\* A variant without the cap on the multiplier.
BackoffDelay_Uncapped(hits) == BACKOFF_BASE * Pow2(hits)

\* The deterministic part of the wait of _handle_rate_limit_error for a given
\* (already incremented) rate_limit_hits.
BackoffDelay(hits) == BACKOFF_BASE * Min(Pow2(hits), MAX_BACKOFF_MULTIPLIER)

\* time.sleep(s) returns after at least s seconds: the time that has passed.
Sleep(s) == s

\* A variant whose daily-limit test is off by one (> instead of >=).
CheckRateLimit_OffByOne ==
    IF backoff_wait > 0
    THEN /\ backoff_wait' = backoff_wait - Sleep(backoff_wait)
         /\ ret' = TRUE
         /\ UNCHANGED <<rate_limit_data, request_count, rate_limit_file>>
    ELSE IF rate_limit_data.daily_requests > MAX_REQUESTS_PER_DAY
    THEN /\ ret' = FALSE
         /\ UNCHANGED <<rate_limit_data, request_count, rate_limit_file, backoff_wait>>
    ELSE /\ ret' = TRUE
         /\ request_count' = request_count + 1
         /\ rate_limit_data' =
                [rate_limit_data EXCEPT !.daily_requests = @ + 1]
         /\ rate_limit_file' =
                IF (request_count + 1) % SAVE_EVERY = 0
                THEN SaveRateLimitData(rate_limit_data')
                ELSE rate_limit_file
         /\ UNCHANGED backoff_wait

\* A variant that saves on every 11th admitted call.
CheckRateLimit_SavesLate ==
    IF backoff_wait > 0
    THEN /\ backoff_wait' = backoff_wait - Sleep(backoff_wait)
         /\ ret' = TRUE
         /\ UNCHANGED <<rate_limit_data, request_count, rate_limit_file>>
    ELSE IF rate_limit_data.daily_requests >= MAX_REQUESTS_PER_DAY
    THEN /\ ret' = FALSE
         /\ UNCHANGED <<rate_limit_data, request_count, rate_limit_file, backoff_wait>>
    ELSE /\ ret' = TRUE
         /\ request_count' = request_count + 1
         /\ rate_limit_data' =
                [rate_limit_data EXCEPT !.daily_requests = @ + 1]
         /\ rate_limit_file' =
                IF (request_count + 1) % (SAVE_EVERY + 1) = 0
                THEN SaveRateLimitData(rate_limit_data')
                ELSE rate_limit_file
         /\ UNCHANGED backoff_wait

\* _check_rate_limit.  Sets ret to the returned value.
CheckRateLimit ==
    IF backoff_wait > 0
    THEN \* in backoff: sleep until the deadline and admit, without counting
         /\ backoff_wait' = backoff_wait - Sleep(backoff_wait)
         /\ ret' = TRUE
         /\ UNCHANGED <<rate_limit_data, request_count, rate_limit_file>>
    ELSE IF rate_limit_data.daily_requests >= MAX_REQUESTS_PER_DAY
    THEN /\ ret' = FALSE
         /\ UNCHANGED <<rate_limit_data, request_count, rate_limit_file, backoff_wait>>
    ELSE /\ ret' = TRUE
         /\ request_count' = request_count + 1
         /\ rate_limit_data' =
                [rate_limit_data EXCEPT !.daily_requests = @ + 1]
         /\ rate_limit_file' =
                IF (request_count + 1) % SAVE_EVERY = 0
                THEN SaveRateLimitData(rate_limit_data')
                ELSE rate_limit_file
         /\ UNCHANGED backoff_wait

\* _handle_rate_limit_error with random.randint(0, 30) = jitter.
HandleRateLimitError(jitter) ==
    LET hits == rate_limit_data.rate_limit_hits + 1
        wait == BackoffDelay(hits) + jitter
    IN  /\ rate_limit_data' = [rate_limit_data EXCEPT !.rate_limit_hits = hits]
        /\ backoff_seconds' = wait
        /\ rate_limit_file' = SaveRateLimitData(rate_limit_data')
        \* backoff_until = now + wait, then time.sleep(wait)
        /\ backoff_wait' = wait - Sleep(wait)

----------------------------------------------------------------------------
(* Part 2: the comment tree (_is_relevant, _get_content_hash,               *)
(*         _fetch_comment_tree and the loop over a post's top-level         *)
(*         comments in crawl_subreddit and search_keywords).                *)

MAX_COMMENT_DEPTH == 4
MAX_REPLIES_PER_COMMENT == 10
MIN_COMMENT_SCORE == -5
REPLY_SCORE_LENIENCY == 3
COMMENTS_PER_POST == 20
SEARCH_COMMENTS_LIMIT == 10
SEARCH_DEPTH == 1
ALWAYS_INCLUDE_AUTHOR == TRUE

MaxPasses == 2    \* traversals of the post in one behaviour
MaxEdits == 1     \* changes of the Source between traversals

\* Texts are sequences of characters; str.lower() on the characters in use.
LowerChar(ch) ==
    CASE ch = "A" -> "a"
      [] ch = "I" -> "i"
      [] ch = "S" -> "s"
      [] OTHER -> ch

Lower(text) == [i \in 1 .. Len(text) |-> LowerChar(text[i])]

\* keyword in text (Python's substring test)
IsSubstring(k, text) ==
    \E i \in 1 .. (Len(text) - Len(k) + 1) : SubSeq(text, i, i + Len(k) - 1) = k

\* self.keywords: two of the configured keywords, "AI" and "Supio".
KEYWORDS == << <<"A", "I">>, <<"S", "u", "p", "i", "o">> >>

\* _is_relevant
IsRelevant(text) ==
    \E n \in 1 .. Len(KEYWORDS) : IsSubstring(Lower(KEYWORDS[n]), Lower(text))

\* _get_content_hash of a comment: the digest of the JSON of id, score and
\* edited (keys sorted), kept as that triple.
CommentHash(id, cm) == <<"edited", cm.edited, "id", id, "score", cm.score>>

NoRec == [hash |-> <<>>]

\* The ids of the replies of comment c (0: of the post), in the Source's order.
Replies(f, c) == SelectSeq([i \in 1 .. Len(f) |-> i], LAMBDA i : f[i].parent = c)

\* seq[:n]
Take(seq, n) == SubSeq(seq, 1, Min(Len(seq), n))

\* line 313: beyond the maximum depth
DepthExceeded(depth, max_depth) == depth > max_depth

\* line 317: the score threshold at a depth
MinScore(depth) ==
    IF depth = 0 THEN MIN_COMMENT_SCORE ELSE MIN_COMMENT_SCORE - REPLY_SCORE_LENIENCY

\* line 322
IsAuthorReply(cm) == ALWAYS_INCLUDE_AUTHOR /\ cm.is_submitter

\* A variant of the relevance gate that checks every comment, whatever the
\* caller passed and whatever PRESERVE_CONTEXT says.
NotRelevant_AlwaysChecked(cm, depth, check_relevance, preserve) ==
    /\ ~IsAuthorReply(cm)
    /\ ~IsRelevant(cm.body)

\* A variant of the relevance gate that lets every top-level comment through.
NotRelevant_TopLevelUnchecked(cm, depth, check_relevance, preserve) ==
    /\ check_relevance
    /\ ~IsAuthorReply(cm)
    /\ depth # 0 /\ ~preserve /\ ~IsRelevant(cm.body)

\* lines 325-333: the comment is skipped as not relevant
NotRelevant(cm, depth, check_relevance, preserve) ==
    /\ check_relevance
    /\ ~IsAuthorReply(cm)
    /\ \/ depth = 0 /\ ~IsRelevant(cm.body)
       \/ depth # 0 /\ ~preserve /\ ~IsRelevant(cm.body)

\* A variant that never finds a comment unchanged.
Unchanged_Never(records, id, hash, incremental) == FALSE

\* lines 341-344: recorded with the same hash, in incremental mode
Unchanged(records, id, hash, incremental) ==
    incremental /\ records[id] # NoRec /\ records[id].hash = hash

\* line 354: replies are fetched
MayDescend(depth, max_depth) == depth < max_depth

\* A variant that passes its own depth on to the replies.
ChildDepth_Same(depth) == depth

\* line 365: the depth of a reply
ChildDepth(depth) == depth + 1

\* line 367: check_relevance of the recursive call
ChildCheckRelevance == FALSE

\* _fetch_comment_tree.  cfg = [forest, max_depth, preserve, failing, now];
\* failing is the set of comments whose access raises.  The result is
\* [tree, records, raised]: tree is <<>> for None and <<node>> otherwise, records is
\* comment_records as the call leaves it, raised tells that an exception left
\* the call.
RECURSIVE FetchCommentTree(_, _, _, _, _, _)
RECURSIVE FetchReplies(_, _, _, _, _)

FetchCommentTree(cfg, c, records, depth, incremental, check_relevance) ==
    LET cm == cfg.forest[c]
        skip == [tree |-> <<>>, records |-> records, raised |-> FALSE]
        hash == CommentHash(c, cm)
    IN  IF DepthExceeded(depth, cfg.max_depth) THEN skip
        ELSE IF c \in cfg.failing
        THEN [tree |-> <<>>, records |-> records, raised |-> TRUE]
        ELSE IF cm.score < MinScore(depth) THEN skip
        ELSE IF NotRelevant(cm, depth, check_relevance, cfg.preserve) THEN skip
        ELSE IF Unchanged(records, c, hash, incremental) THEN skip
        ELSE LET rec1 == [records EXCEPT ![c] =
                             [hash |-> hash, depth |-> depth, last_seen |-> cfg.now]]
                 rs == IF MayDescend(depth, cfg.max_depth)
                       THEN FetchReplies(cfg, Take(Replies(cfg.forest, c),
                                                   MAX_REPLIES_PER_COMMENT),
                                         rec1, ChildDepth(depth), incremental)
                       ELSE [trees |-> <<>>, records |-> rec1, raised |-> FALSE]
             IN  [tree |-> IF rs.raised THEN <<>>
                           ELSE << [id |-> c, depth |-> depth,
                                    is_submitter |-> cm.is_submitter,
                                    replies |-> rs.trees] >>,
                  records |-> rs.records,
                  raised |-> rs.raised]

\* lines 358-373: the loop over the replies, left to right
FetchReplies(cfg, ids, records, depth, incremental) ==
    IF ids = <<>>
    THEN [trees |-> <<>>, records |-> records, raised |-> FALSE]
    ELSE LET r == FetchCommentTree(cfg, Head(ids), records, depth, incremental,
                                   ChildCheckRelevance)
         IN  IF r.raised
             THEN [trees |-> <<>>, records |-> r.records, raised |-> TRUE]
             ELSE LET rest == FetchReplies(cfg, Tail(ids), r.records, depth, incremental)
                  IN  [trees |-> r.tree \o rest.trees,
                       records |-> rest.records,
                       raised |-> rest.raised]

\* The loop over the top-level comments of a post (lines 501-513 and 651-673):
\* each is fetched at depth 0 with the relevance check on.
RECURSIVE FetchTopLevel(_, _, _, _)
FetchTopLevel(cfg, ids, records, incremental) ==
    IF ids = <<>>
    THEN [trees |-> <<>>, records |-> records, raised |-> FALSE]
    ELSE LET r == FetchCommentTree(cfg, Head(ids), records, 0, incremental, TRUE)
         IN  IF r.raised
             THEN [trees |-> <<>>, records |-> r.records, raised |-> TRUE]
             ELSE LET rest == FetchTopLevel(cfg, Tail(ids), r.records, incremental)
                  IN  [trees |-> r.tree \o rest.trees,
                       records |-> rest.records,
                       raised |-> rest.raised]

\* The depth limit in force: search_keywords sets MAX_COMMENT_DEPTH to
\* min(1, MAX_COMMENT_DEPTH) around each call (lines 657-658).
DepthLimit(mode, max_depth) ==
    IF mode = "search" THEN Min(SEARCH_DEPTH, max_depth) ELSE max_depth

\* The number of top-level comments taken (lines 501 and 651).
TopLimit(mode) == IF mode = "search" THEN SEARCH_COMMENTS_LIMIT ELSE COMMENTS_PER_POST

\* The comments of a post as crawl_subreddit (browse) or search_keywords (search)
\* collect them.
FetchPostComments(f, mode, max_depth, preserve, failing, now, records, incremental) ==
    FetchTopLevel([forest |-> f, max_depth |-> DepthLimit(mode, max_depth),
                   preserve |-> preserve, failing |-> failing, now |-> now],
                  Take(Replies(f, 0), TopLimit(mode)), records, incremental)

----------------------------------------------------------------------------
(* The forests the Source may hold.  A comment is                           *)
(* [parent, score, is_submitter, body, edited]; its id is its index, and    *)
(* the Source lists replies in the order of their ids.                      *)

Comment(p, prof) ==
    [parent |-> p, score |-> prof.score, is_submitter |-> prof.is_submitter,
     body |-> prof.body, edited |-> FALSE]

Plain  == [score |-> 0, is_submitter |-> FALSE, body |-> <<"n", "o">>]
Keyed  == [score |-> 0, is_submitter |-> FALSE, body |-> <<"s", "A", "i", "d">>]
Author == [score |-> 0, is_submitter |-> TRUE, body |-> <<"n", "o">>]
Low    == [score |-> -6, is_submitter |-> FALSE, body |-> <<"a", "i">>]
Buried == [score |-> -9, is_submitter |-> FALSE, body |-> <<"n", "o">>]

Profiles == {Plain, Keyed, Author, Low, Buried}

\* The shapes of the forests with three comments (parent of each comment): two
\* top-level comments of which the second has a reply, one with two replies, and
\* a chain.
Shapes == { <<0, 0, 2>>, <<0, 1, 1>>, <<0, 1, 2>> }

GeneralForests ==
    { [i \in 1 .. 3 |-> Comment(sh[i], pr[i])] :
        sh \in Shapes, pr \in [1 .. 3 -> Profiles] }

\* A chain that is deeper than MAX_COMMENT_DEPTH: depths 0 .. MAX_COMMENT_DEPTH + 1.
ChainForests ==
    { [i \in 1 .. MAX_COMMENT_DEPTH + 2 |->
          Comment(i - 1, IF i = 1 THEN top ELSE IF i = 3 THEN third ELSE Plain)] :
        top \in {Keyed, Author}, third \in {Plain, Author} }

\* A depth-1 comment with more than MAX_REPLIES_PER_COMMENT replies.
WideForests ==
    { [i \in 1 .. MAX_REPLIES_PER_COMMENT + 3 |->
          Comment(IF i <= 2 THEN i - 1 ELSE 2, IF i = 1 THEN Keyed ELSE Plain)] }

Forests == GeneralForests \cup ChainForests \cup WideForests

EmptyRecords(f) == [i \in 1 .. Len(f) |-> NoRec]

\* No post is being traversed (the tree variables at rest).
TreeIdle ==
    /\ forest = <<>>
    /\ preserve_context = TRUE
    /\ comment_records = <<>>
    /\ comments_out = <<>>
    /\ tmode = "none"
    /\ tincr = FALSE
    /\ tnow = 0
    /\ edits = 0

GovIdle ==
    /\ today = 1
    /\ rate_limit_file = NoFile
    /\ rate_limit_data = DefaultRateData(1)
    /\ request_count = 0
    /\ backoff_wait = 0
    /\ backoff_seconds = 0
    /\ ret = TRUE
    /\ last_op = "none"
    /\ gpc = "idle"
    /\ runs = 0

----------------------------------------------------------------------------
(* Part 3: a run.  The world the run crawls: subreddits, their listings and *)
(* search results, and the posts with their comment forests.                *)

PRESERVE_CONTEXT == TRUE
POSTS_PER_LISTING == 25
SEARCH_LIMIT == 10
RATE_CHECK_INTERVAL == 5
MIN_POST_SCORE == 10
SUBREDDIT_PAUSE == 5

MaxFaults == 1    \* Source failures in one run

\* self.subreddits (the first two) and the listing types of crawl_subreddit.
SUBREDDITS == <<"LawFirm", "Lawyertalk">>
LISTING_TYPES == <<"hot", "new", "rising", "top">>

\* A post: [old, score, text, num_comments, edited, forest]; its id is its index.
Post(old, score, text, f) ==
    [old |-> old, score |-> score, text |-> text, num_comments |-> Len(f),
     edited |-> FALSE, forest |-> f]

Thread ==
    << Comment(0, Keyed), Comment(1, Plain), Comment(2, Plain),
       Comment(0, Plain), Comment(4, Author) >>

Posts ==
    << Post(FALSE, 20, <<"s", "A", "i", "d">>, Thread),
       Post(TRUE, 20, <<"a", "i">>, <<>>),
       Post(FALSE, 5, <<"a", "i">>, <<>>),
       Post(FALSE, 20, <<"n", "o">>, <<>>),
       Post(FALSE, 60, <<"S", "u", "p", "i", "o">>, << Comment(0, Author) >>),
       Post(FALSE, 20, <<"a", "i">>, <<>>),
       Post(FALSE, 5, <<"n", "o">>, << Comment(0, Keyed) >>),
       Post(FALSE, 20, <<"A", "I">>, << Comment(0, Keyed), Comment(1, Plain) >>) >>

PostIds == 1 .. Len(Posts)

\* What subreddit.hot(), .new(), .rising() and .top() yield, as post ids.
Listing(s, l) ==
    IF s = 1
    THEN CASE l = 1 -> <<1, 2, 3, 4, 5, 7>>
           [] l = 2 -> <<1, 6>>
           [] l = 3 -> <<>>
           [] OTHER -> <<1>>
    ELSE IF l = 1 THEN <<8>> ELSE <<>>

\* What subreddit.search(keyword) yields.
SearchResult(s, k) ==
    IF s = 1
    THEN (IF k = 1 THEN <<1, 7>> ELSE <<5>>)
    ELSE (IF k = 1 THEN <<8>> ELSE <<>>)

\* _get_content_hash of a post: id, score, edited and num_comments.
PostHash(p) ==
    <<"edited", Posts[p].edited, "id", p, "num_comments", Posts[p].num_comments,
      "score", Posts[p].score>>

NoPostRec == [hash |-> <<>>]

\* The scopes of the record: the subreddit's name, or the name with "_search".
Namespaces == { <<s, m>> : s \in 1 .. Len(SUBREDDITS), m \in {"browse", "search"} }

\* _load_record when nothing is persisted.
EmptyRecord ==
    [posts |-> [ns \in Namespaces |-> [p \in PostIds |-> NoPostRec]],
     comments |-> [ns \in Namespaces |-> [p \in PostIds |-> EmptyRecords(Posts[p].forest)]],
     last_crawl |-> [s \in 1 .. Len(SUBREDDITS) |-> -1]]

\* The record an earlier run left that collected post 1 in browse mode.
PriorRecord ==
    [EmptyRecord EXCEPT
       !.posts[<<1, "browse">>][1] = [hash |-> PostHash(1), last_seen |-> 0],
       !.comments[<<1, "browse">>][1] =
           FetchPostComments(Posts[1].forest, "browse", MAX_COMMENT_DEPTH,
                             PRESERVE_CONTEXT, {}, 0,
                             EmptyRecords(Posts[1].forest), TRUE).records,
       !.last_crawl[1] = 0]

\* json.dumps(..., sort_keys=True) of the selected fields: the keys in
\* alphabetical order, each followed by its value.
JsonDumps(d) ==
    <<"edited", d["edited"], "id", d["id"]>>
    \o (IF "num_comments" \in DOMAIN d THEN <<"num_comments", d["num_comments"]>> ELSE <<>>)
    \o <<"score", d["score"]>>

\* A variant that leaves the edit state out of the hashed fields.
GetContentHash_NoEdited(item) ==
    <<"id", item["id"]>>
    \o (IF "num_comments" \in DOMAIN item THEN <<"num_comments", item["num_comments"]>>
        ELSE <<>>)
    \o <<"score", item["score"]>>

\* _get_content_hash (lines 232-239).  The MD5 digest is taken to be free of
\* collisions: the digest of a text is represented by the text.
GetContentHash(item) ==
    LET key_fields == IF "num_comments" \in DOMAIN item
                      THEN {"id", "score", "edited", "num_comments"}
                      ELSE {"id", "score", "edited"}
        hash_content == [k \in key_fields |-> item[k]]
    IN  JsonDumps(hash_content)

\* No fingerprint is asked for.
HashIdle ==
    /\ content = <<>>
    /\ content_hash = <<>>

\* No Lambda crawler is modelled.
LambdaIdle == committed = <<>>

\* No Twitter collection is modelled (its variables at rest).
TwitterIdle ==
    /\ tw_pc = "idle"
    /\ qi = 0
    /\ retry_count = 0
    /\ rate_limit_hit = FALSE
    /\ elapsed = 0
    /\ queries_processed = 0
    /\ tried = <<>>

\* No run is modelled (the run variables at rest).
RunIdle ==
    /\ pc = "none"
    /\ sub = 0
    /\ li = 0
    /\ ki = 0
    /\ pi = 0
    /\ post_count = 0
    /\ run_incremental = TRUE
    /\ collected_posts = <<>>
    /\ all_posts = <<>>
    /\ result = <<>>
    /\ record = EmptyRecord
    /\ record_file = EmptyRecord
    /\ max_comment_depth = MAX_COMMENT_DEPTH
    /\ source_requests = 0
    /\ denied = FALSE
    /\ accumulated = {}
    /\ faults = 0
    /\ passes = <<>>

TreeInit ==
    /\ GovIdle
    /\ RunIdle
    /\ HashIdle
    /\ LambdaIdle
    /\ TwitterIdle
    /\ forest \in Forests
    /\ preserve_context \in BOOLEAN
    /\ comment_records = EmptyRecords(forest)
    /\ comments_out = <<>>
    /\ tmode = "none"
    /\ tincr = FALSE
    /\ tnow = 0
    /\ edits = 0

\* One traversal of the post's comments, in browse or search mode.
TreeFetch ==
    /\ tnow < MaxPasses
    /\ \E mode \in {"browse", "search"}, incremental \in BOOLEAN :
         LET r == FetchPostComments(forest, mode, MAX_COMMENT_DEPTH, preserve_context,
                                    {}, tnow + 1, comment_records, incremental)
         IN  /\ comments_out' = r.trees
             /\ comment_records' = r.records
             /\ tmode' = mode
             /\ tincr' = incremental
    /\ tnow' = tnow + 1
    /\ UNCHANGED <<forest, preserve_context, edits>>
    /\ UNCHANGED gvars
    /\ UNCHANGED rvars
    /\ UNCHANGED hvars
    /\ UNCHANGED lvars
    /\ UNCHANGED wvars
    /\ UNCHANGED mvars

\* Between two traversals a comment is edited or voted on at the Source.
TreeEdit ==
    /\ tnow > 0
    /\ edits < MaxEdits
    /\ \E c \in 1 .. Len(forest) :
         \/ forest' = [forest EXCEPT ![c].edited = TRUE]
         \/ forest' = [forest EXCEPT ![c].score = @ + 1]
    /\ forest' # forest
    /\ edits' = edits + 1
    /\ UNCHANGED <<preserve_context, comment_records, comments_out, tmode, tincr, tnow>>
    /\ UNCHANGED gvars
    /\ UNCHANGED rvars
    /\ UNCHANGED hvars
    /\ UNCHANGED lvars
    /\ UNCHANGED wvars
    /\ UNCHANGED mvars

TreeNext == TreeFetch \/ TreeEdit

SpecTree == TreeInit /\ [][TreeNext]_vars

----------------------------------------------------------------------------
(* The governor on its own: processes that start, are asked for admission   *)
(* and told of throttling in any order, end or die, across calendar days.   *)

\* What may be persisted when the first process starts.
InitFiles ==
    {NoFile} \cup
    { RateData(d, r, h) : d \in {0, 3, MAX_REQUESTS_PER_DAY - 1, MAX_REQUESTS_PER_DAY},
                          r \in {0, 1},
                          h \in {0, 1} }

GovInit ==
    /\ today = 1
    /\ rate_limit_file \in InitFiles
    /\ rate_limit_data = DefaultRateData(1)
    /\ request_count = 0
    /\ backoff_wait = 0
    /\ backoff_seconds = 0
    /\ ret = TRUE
    /\ last_op = "none"
    /\ gpc = "idle"
    /\ runs = 0
    /\ TreeIdle
    /\ RunIdle
    /\ HashIdle
    /\ LambdaIdle
    /\ TwitterIdle

\* __init__: a new process loads the persisted state.
GovStart ==
    /\ gpc = "idle"
    /\ runs < MaxRuns
    /\ rate_limit_data' = LoadRateLimitData(rate_limit_file, today)
    /\ request_count' = 0
    /\ backoff_wait' = 0
    /\ backoff_seconds' = 0
    /\ ret' = TRUE
    /\ last_op' = "load"
    /\ gpc' = "running"
    /\ runs' = runs + 1
    /\ UNCHANGED <<today, rate_limit_file>>
    /\ UNCHANGED tvars
    /\ UNCHANGED hvars
    /\ UNCHANGED lvars
    /\ UNCHANGED wvars
    /\ UNCHANGED mvars
    /\ UNCHANGED rvars

GovCheck ==
    /\ gpc = "running"
    /\ request_count < MaxCalls
    /\ CheckRateLimit
    /\ last_op' = "check"
    /\ UNCHANGED <<today, backoff_seconds, gpc, runs>>
    /\ UNCHANGED tvars
    /\ UNCHANGED hvars
    /\ UNCHANGED lvars
    /\ UNCHANGED wvars
    /\ UNCHANGED mvars
    /\ UNCHANGED rvars

GovThrottle ==
    /\ gpc = "running"
    /\ rate_limit_data.rate_limit_hits < MaxHits
    /\ \E jitter \in {0, MAX_JITTER} : HandleRateLimitError(jitter)
    /\ last_op' = "throttle"
    /\ UNCHANGED <<today, request_count, ret, gpc, runs>>
    /\ UNCHANGED tvars
    /\ UNCHANGED hvars
    /\ UNCHANGED lvars
    /\ UNCHANGED wvars
    /\ UNCHANGED mvars
    /\ UNCHANGED rvars

\* The end of run_full_crawl: the final save of the rate-limit state.
GovEnd ==
    /\ gpc = "running"
    /\ rate_limit_file' = SaveRateLimitData(rate_limit_data)
    /\ last_op' = "end"
    /\ gpc' = "idle"
    /\ UNCHANGED <<today, rate_limit_data, request_count, backoff_wait,
                   backoff_seconds, ret, runs>>
    /\ UNCHANGED tvars
    /\ UNCHANGED hvars
    /\ UNCHANGED lvars
    /\ UNCHANGED wvars
    /\ UNCHANGED mvars
    /\ UNCHANGED rvars

\* The process dies (killed, timed out) without its final save.
GovCrash ==
    /\ gpc = "running"
    /\ last_op' = "crash"
    /\ gpc' = "idle"
    /\ UNCHANGED <<today, rate_limit_file, rate_limit_data, request_count,
                   backoff_wait, backoff_seconds, ret, runs>>
    /\ UNCHANGED tvars
    /\ UNCHANGED hvars
    /\ UNCHANGED lvars
    /\ UNCHANGED wvars
    /\ UNCHANGED mvars
    /\ UNCHANGED rvars

\* Midnight (UTC) passes, whether or not a process is running.
NextDay ==
    /\ today < MaxDay
    /\ today' = today + 1
    /\ last_op' = "midnight"
    /\ UNCHANGED <<rate_limit_file, rate_limit_data, request_count, backoff_wait,
                   backoff_seconds, ret, gpc, runs>>
    /\ UNCHANGED tvars
    /\ UNCHANGED hvars
    /\ UNCHANGED lvars
    /\ UNCHANGED wvars
    /\ UNCHANGED mvars
    /\ UNCHANGED rvars

GovNext == GovStart \/ GovCheck \/ GovThrottle \/ GovEnd \/ GovCrash \/ NextDay

SpecGov == GovInit /\ [][GovNext]_vars

----------------------------------------------------------------------------
(* Backoff escalation: one process, told of throttling again and again,     *)
(* with every jitter value random.randint(0, 30) can return.                *)

\* The rate-limit state a process may hold after construction.
BackoffInit ==
    /\ today = 1
    /\ rate_limit_file \in InitFiles
    /\ rate_limit_data = LoadRateLimitData(rate_limit_file, today)
    /\ request_count = 0
    /\ backoff_wait = 0
    /\ backoff_seconds = 0
    /\ ret = TRUE
    /\ last_op = "load"
    /\ gpc = "running"
    /\ runs = 1
    /\ TreeIdle
    /\ RunIdle
    /\ HashIdle
    /\ LambdaIdle
    /\ TwitterIdle

BackoffThrottle ==
    /\ gpc = "running"
    /\ rate_limit_data.rate_limit_hits < MaxHits
    /\ \E jitter \in 0 .. MAX_JITTER : HandleRateLimitError(jitter)
    /\ last_op' = "throttle"
    /\ UNCHANGED <<today, request_count, ret, gpc, runs>>
    /\ UNCHANGED tvars
    /\ UNCHANGED hvars
    /\ UNCHANGED lvars
    /\ UNCHANGED wvars
    /\ UNCHANGED mvars
    /\ UNCHANGED rvars

BackoffNext == BackoffThrottle

SpecBackoff == BackoffInit /\ [][BackoffNext]_vars

----------------------------------------------------------------------------
(* Part 3, continued: run_full_crawl.  One process is constructed and runs  *)
(* crawl_subreddit and search_keywords over every subreddit, then merges.   *)
(* pc: "new" (not constructed), "run" (constructed), "listing" (line 444),  *)
(* "fetch_listing" (448-460), "post" (460-467), "filter" (468-492),         *)
(* "comments" (495-529), "crawl_end" (550-564), "search" (624),             *)
(* "fetch_search" (629), "spost" (635-641), "scomments" (643-683),          *)
(* "search_end" (699-712), "merge" (801-855), "done".                       *)

\* What a request to the Source may come to: a result, HTTP 429, HTTP 403 or
\* 404, or another error.
Outcomes ==
    IF faults < MaxFaults THEN {"ok", "throttled", "access", "error"} ELSE {"ok"}

\* The comments of a post whose access may raise during the traversal.
FailingSets(p) ==
    IF faults < MaxFaults /\ Len(Posts[p].forest) >= 2 THEN {{}, {2}} ELSE {{}}

\* _load_record: the persisted record as it is.
LoadRecord(file) == file

\* _save_record: the whole in-memory record replaces the persisted one.
SaveRecord(rec) == rec

CurrentListing == Take(Listing(sub, li), POSTS_PER_LISTING)

CurrentResult == Take(SearchResult(sub, ki), SEARCH_LIMIT)

\* line 464
CheckDue == post_count > 0 /\ post_count % RATE_CHECK_INTERVAL = 0

\* The next iteration of the loop over the listing types (line 439).
NextListing ==
    IF li < Len(LISTING_TYPES)
    THEN [pc |-> "listing", li |-> li + 1]
    ELSE [pc |-> "crawl_end", li |-> li]

\* The next iteration of the loop over the keywords (line 619).
NextKeyword ==
    IF ki < Len(KEYWORDS)
    THEN [pc |-> "search", ki |-> ki + 1]
    ELSE [pc |-> "search_end", ki |-> ki]

\* A variant that fetches the listing whatever the governor said.
OnListingCheck_IgnoreDenial(admitted) == "fetch_listing"

\* A variant that asks the governor again after a denial.
OnListingCheck_RetryOnDenial(admitted) ==
    IF admitted THEN "fetch_listing" ELSE "listing"

\* lines 444-446: a denial leaves the loop over the listing types
OnListingCheck(admitted) == IF admitted THEN "fetch_listing" ELSE "crawl_end"

\* lines 624-626: a denial leaves the loop over the keywords
OnSearchCheck(admitted) == IF admitted THEN "fetch_search" ELSE "search_end"

\* lines 489-492
PostUnchanged(ns, p) ==
    /\ run_incremental
    /\ record.posts[ns][p] # NoPostRec
    /\ record.posts[ns][p].hash = PostHash(p)

\* The governor is not called.
GovQuiet ==
    UNCHANGED <<rate_limit_file, rate_limit_data, request_count, backoff_wait,
                backoff_seconds, ret>>

\* What the except clauses were entered with: HTTP 403 or 404 ("access"), an
\* exception that left the traversal of a post's comments at a reply
\* ("branch"), or any other error.
FailureOp(outcome) ==
    CASE outcome = "access" -> "access_fail"
      [] outcome = "branch" -> "branch_fail"
      [] OTHER -> "fail"

\* lines 531-546: the except clauses of crawl_subreddit
CrawlExcept(outcome) ==
    /\ IF outcome = "throttled"
       THEN /\ \E jitter \in {0, MAX_JITTER} : HandleRateLimitError(jitter)
            /\ last_op' = "throttle"
            /\ UNCHANGED <<request_count, ret>>
            /\ pc' = "crawl_end"
            /\ li' = li
       ELSE /\ GovQuiet
            /\ last_op' = FailureOp(outcome)
            /\ pc' = IF outcome = "access" THEN "crawl_end" ELSE NextListing.pc
            /\ li' = IF outcome = "access" THEN li ELSE NextListing.li
    /\ UNCHANGED <<pi, post_count>>

\* lines 685-697: the except clauses of search_keywords
SearchExcept(outcome) ==
    /\ IF outcome = "throttled"
       THEN /\ \E jitter \in {0, MAX_JITTER} : HandleRateLimitError(jitter)
            /\ last_op' = "throttle"
            /\ UNCHANGED <<request_count, ret>>
            /\ pc' = "search_end"
            /\ ki' = ki
       ELSE /\ GovQuiet
            /\ last_op' = FailureOp(outcome)
            /\ pc' = NextKeyword.pc
            /\ ki' = NextKeyword.ki
    /\ UNCHANGED pi

\* lines 802-817: duplicates of a post are folded into its first occurrence;
\* of the later occurrence's comments the top-level ones with a new id are added.
\* A variant that appends the later occurrence's comments without the id test.
MergeComments_NoIdTest(existing, new) == existing \o new

RECURSIVE MergeComments(_, _)
MergeComments(existing, new) ==
    IF new = <<>> THEN existing
    ELSE IF \E i \in 1 .. Len(existing) : existing[i].id = Head(new).id
         THEN MergeComments(existing, Tail(new))
         ELSE MergeComments(Append(existing, Head(new)), Tail(new))

\* A variant in which the later occurrence of a post replaces the earlier one.
RECURSIVE MergePosts_LastWins(_, _)
MergePosts_LastWins(posts, unique) ==
    IF posts = <<>> THEN unique
    ELSE LET p == Head(posts)
             at == { i \in 1 .. Len(unique) : unique[i].id = p.id }
         IN  IF at # {}
             THEN MergePosts_LastWins(Tail(posts),
                     [unique EXCEPT ![CHOOSE i \in at : TRUE] =
                         [p EXCEPT !.comments = MergeComments(@, p.comments)]])
             ELSE MergePosts_LastWins(Tail(posts), Append(unique, p))

\* A variant that drops a later occurrence of a post with its comments.
RECURSIVE MergePosts_DropsDuplicate(_, _)
MergePosts_DropsDuplicate(posts, unique) ==
    IF posts = <<>> THEN unique
    ELSE LET p == Head(posts)
         IN  IF \E i \in 1 .. Len(unique) : unique[i].id = p.id
             THEN MergePosts_DropsDuplicate(Tail(posts), unique)
             ELSE MergePosts_DropsDuplicate(Tail(posts), Append(unique, p))

RECURSIVE MergePosts(_, _)
MergePosts(posts, unique) ==
    IF posts = <<>> THEN unique
    ELSE LET p == Head(posts)
             at == { i \in 1 .. Len(unique) : unique[i].id = p.id }
         IN  IF at # {}
             THEN MergePosts(Tail(posts),
                             [unique EXCEPT ![CHOOSE i \in at : TRUE].comments =
                                               MergeComments(@, p.comments)])
             ELSE MergePosts(Tail(posts), Append(unique, p))

\* What may be persisted when the process starts: nothing, yesterday's state
\* with a throttle hit, and today's state near and at the daily cap.
RunFiles ==
    { NoFile,
      RateData(3, 0, 1),
      RateData(MAX_REQUESTS_PER_DAY - 2, 1, 0),
      RateData(MAX_REQUESTS_PER_DAY - 1, 1, 0),
      RateData(MAX_REQUESTS_PER_DAY, 1, 1) }

RunInit ==
    /\ today = 1
    /\ rate_limit_file \in RunFiles
    /\ rate_limit_data = DefaultRateData(1)
    /\ request_count = 0
    /\ backoff_wait = 0
    /\ backoff_seconds = 0
    /\ ret = TRUE
    /\ last_op = "none"
    /\ gpc = "idle"
    /\ runs = 0
    /\ TreeIdle
    /\ pc = "new"
    /\ sub = 0
    /\ li = 0
    /\ ki = 0
    /\ pi = 0
    /\ post_count = 0
    /\ run_incremental \in BOOLEAN
    /\ collected_posts = <<>>
    /\ all_posts = <<>>
    /\ result = <<>>
    /\ record = EmptyRecord
    /\ record_file \in {EmptyRecord, PriorRecord}
    /\ max_comment_depth = MAX_COMMENT_DEPTH
    /\ source_requests = 0
    /\ denied = FALSE
    /\ accumulated = {}
    /\ faults = 0
    /\ passes = <<>>
    /\ HashIdle
    /\ LambdaIdle
    /\ TwitterIdle

\* __init__ (lines 65-67 and 79-90): without credentials ValueError is raised
\* before anything is loaded, and no crawler exists
Construct ==
    /\ pc = "new"
    /\ \E credentials \in BOOLEAN :
         IF credentials
         THEN /\ rate_limit_data' = LoadRateLimitData(rate_limit_file, today)
              /\ request_count' = 0
              /\ backoff_wait' = 0
              /\ record' = LoadRecord(record_file)
              /\ last_op' = "load"
              /\ gpc' = "running"
              /\ runs' = runs + 1
              /\ pc' = "run"
         ELSE /\ pc' = "raised"
              /\ last_op' = "config_error"
              /\ UNCHANGED <<rate_limit_data, request_count, backoff_wait, record,
                             gpc, runs>>
    /\ UNCHANGED <<today, rate_limit_file, backoff_seconds, ret>>
    /\ UNCHANGED <<sub, li, ki, pi, post_count, run_incremental, collected_posts,
                   all_posts, result, record_file, max_comment_depth, source_requests,
                   denied, accumulated, faults>>
    /\ UNCHANGED tvars
    /\ UNCHANGED hvars
    /\ UNCHANGED lvars
    /\ UNCHANGED wvars
    /\ UNCHANGED mvars

\* run_full_crawl up to the first crawl_subreddit (lines 771-783, 417-428)
StartCrawl ==
    /\ pc = "run"
    /\ all_posts' = <<>>
    /\ sub' = 1
    /\ collected_posts' = <<>>
    /\ li' = 1
    /\ pc' = "listing"
    /\ last_op' = "start"
    /\ GovQuiet
    /\ UNCHANGED <<today, gpc, runs>>
    /\ UNCHANGED <<ki, pi, post_count, run_incremental, result, record, record_file,
                   max_comment_depth, source_requests, denied, accumulated, faults>>
    /\ UNCHANGED tvars
    /\ UNCHANGED hvars
    /\ UNCHANGED lvars
    /\ UNCHANGED wvars
    /\ passes' = <<>>

\* lines 444-446
ListingCheck ==
    /\ pc = "listing"
    /\ CheckRateLimit
    /\ denied' = (denied \/ ~ret')
    /\ pc' = OnListingCheck(ret')
    /\ last_op' = "check"
    /\ UNCHANGED <<today, backoff_seconds, gpc, runs>>
    /\ UNCHANGED <<sub, li, ki, pi, post_count, run_incremental, collected_posts,
                   all_posts, result, record, record_file, max_comment_depth,
                   source_requests, accumulated, faults>>
    /\ UNCHANGED tvars
    /\ UNCHANGED hvars
    /\ UNCHANGED lvars
    /\ UNCHANGED wvars
    /\ UNCHANGED mvars

\* lines 448-460: the listing is requested from the Source
ListingFetch ==
    /\ pc = "fetch_listing"
    /\ source_requests' = source_requests + 1
    /\ \E outcome \in Outcomes :
         IF outcome = "ok"
         THEN /\ pc' = "post"
              /\ pi' = 1
              /\ post_count' = 0
              /\ last_op' = "fetch"
              /\ GovQuiet
              /\ UNCHANGED <<li, faults>>
         ELSE /\ faults' = faults + 1
              /\ CrawlExcept(outcome)
    /\ UNCHANGED <<today, gpc, runs>>
    /\ UNCHANGED <<sub, ki, run_incremental, collected_posts, all_posts, result,
                   record, record_file, max_comment_depth, denied, accumulated>>
    /\ UNCHANGED tvars
    /\ UNCHANGED hvars
    /\ UNCHANGED lvars
    /\ UNCHANGED wvars
    /\ UNCHANGED mvars

\* lines 464-467: the periodic check; a denial leaves the loop over the posts
PeriodicCheck ==
    /\ pc = "post"
    /\ pi <= Len(CurrentListing)
    /\ CheckDue
    /\ CheckRateLimit
    /\ denied' = (denied \/ ~ret')
    /\ pc' = IF ret' THEN "filter" ELSE NextListing.pc
    /\ li' = IF ret' THEN li ELSE NextListing.li
    /\ last_op' = "check"
    /\ UNCHANGED <<today, backoff_seconds, gpc, runs>>
    /\ UNCHANGED <<sub, ki, pi, post_count, run_incremental, collected_posts,
                   all_posts, result, record, record_file, max_comment_depth,
                   source_requests, accumulated, faults>>
    /\ UNCHANGED tvars
    /\ UNCHANGED hvars
    /\ UNCHANGED lvars
    /\ UNCHANGED wvars
    /\ UNCHANGED mvars

\* lines 468-492: the filters on age, score and relevance, and the early stop
PostFilter ==
    /\ \/ pc = "filter"
       \/ pc = "post" /\ pi <= Len(CurrentListing) /\ ~CheckDue
    /\ post_count' = post_count + 1
    /\ LET p == CurrentListing[pi]
       IN  IF \/ Posts[p].old
              \/ Posts[p].score < MIN_POST_SCORE
              \/ ~IsRelevant(Posts[p].text)
           THEN pc' = "post" /\ pi' = pi + 1 /\ li' = li
           ELSE IF PostUnchanged(<<sub, "browse">>, p)
           THEN pc' = NextListing.pc /\ li' = NextListing.li /\ pi' = pi
           ELSE pc' = "comments" /\ pi' = pi /\ li' = li
    /\ last_op' = "filter"
    /\ GovQuiet
    /\ UNCHANGED <<today, gpc, runs>>
    /\ UNCHANGED <<sub, ki, run_incremental, collected_posts, all_posts, result,
                   record, record_file, max_comment_depth, source_requests, denied,
                   accumulated, faults>>
    /\ UNCHANGED tvars
    /\ UNCHANGED hvars
    /\ UNCHANGED lvars
    /\ UNCHANGED wvars
    /\ UNCHANGED mvars

\* line 460: the listing is exhausted
ListingDone ==
    /\ pc = "post"
    /\ pi > Len(CurrentListing)
    /\ pc' = NextListing.pc
    /\ li' = NextListing.li
    /\ last_op' = "exhausted"
    /\ GovQuiet
    /\ UNCHANGED <<today, gpc, runs>>
    /\ UNCHANGED <<sub, ki, pi, post_count, run_incremental, collected_posts,
                   all_posts, result, record, record_file, max_comment_depth,
                   source_requests, denied, accumulated, faults>>
    /\ UNCHANGED tvars
    /\ UNCHANGED hvars
    /\ UNCHANGED lvars
    /\ UNCHANGED wvars
    /\ UNCHANGED mvars

\* lines 495-529: the post's comment forest is requested and traversed, the post
\* is recorded and collected
CommentsFetch ==
    /\ pc = "comments"
    /\ source_requests' = source_requests + 1
    /\ LET p == CurrentListing[pi]
           ns == <<sub, "browse">>
       IN  \E outcome \in Outcomes :
             IF outcome = "ok"
             THEN \E failing \in FailingSets(p) :
                    LET r == FetchPostComments(Posts[p].forest, "browse",
                                               max_comment_depth, PRESERVE_CONTEXT,
                                               failing, today,
                                               record.comments[ns][p], run_incremental)
                    IN  IF r.raised
                        THEN /\ record' = [record EXCEPT !.comments[ns][p] = r.records]
                             /\ faults' = faults + 1
                             /\ CrawlExcept("branch")
                             /\ UNCHANGED <<collected_posts, accumulated>>
                        ELSE /\ record' =
                                  [record EXCEPT
                                     !.comments[ns][p] = r.records,
                                     !.posts[ns][p] =
                                         [hash |-> PostHash(p), last_seen |-> today]]
                             /\ collected_posts' =
                                  Append(collected_posts, [id |-> p, comments |-> r.trees])
                             /\ accumulated' = accumulated \cup {p}
                             /\ pc' = "post"
                             /\ pi' = pi + 1
                             /\ last_op' = "collect"
                             /\ GovQuiet
                             /\ UNCHANGED <<li, post_count, faults>>
             ELSE /\ faults' = faults + 1
                  /\ CrawlExcept(outcome)
                  /\ UNCHANGED <<record, collected_posts, accumulated>>
    /\ UNCHANGED <<today, gpc, runs>>
    /\ UNCHANGED <<sub, ki, run_incremental, all_posts, result, record_file,
                   max_comment_depth, denied>>
    /\ UNCHANGED tvars
    /\ UNCHANGED hvars
    /\ UNCHANGED lvars
    /\ UNCHANGED wvars
    /\ UNCHANGED mvars

\* lines 550-564 and 788-791: crawl_subreddit saves the record and returns,
\* run_full_crawl takes the posts and calls search_keywords (lines 611-617)
CrawlEnd ==
    /\ pc = "crawl_end"
    /\ record' = [record EXCEPT !.last_crawl[sub] = today]
    /\ record_file' = SaveRecord(record')
    /\ all_posts' = all_posts \o collected_posts
    /\ collected_posts' = <<>>
    /\ ki' = 1
    /\ pc' = "search"
    /\ last_op' = "crawl_end"
    /\ GovQuiet
    /\ UNCHANGED <<today, gpc, runs>>
    /\ UNCHANGED <<sub, li, pi, post_count, run_incremental, result,
                   max_comment_depth, source_requests, denied, accumulated, faults>>
    /\ UNCHANGED tvars
    /\ UNCHANGED hvars
    /\ UNCHANGED lvars
    /\ UNCHANGED wvars
    /\ passes' = Append(passes, collected_posts)

\* lines 624-626
SearchCheck ==
    /\ pc = "search"
    /\ CheckRateLimit
    /\ denied' = (denied \/ ~ret')
    /\ pc' = OnSearchCheck(ret')
    /\ last_op' = "check"
    /\ UNCHANGED <<today, backoff_seconds, gpc, runs>>
    /\ UNCHANGED <<sub, li, ki, pi, post_count, run_incremental, collected_posts,
                   all_posts, result, record, record_file, max_comment_depth,
                   source_requests, accumulated, faults>>
    /\ UNCHANGED tvars
    /\ UNCHANGED hvars
    /\ UNCHANGED lvars
    /\ UNCHANGED wvars
    /\ UNCHANGED mvars

\* lines 629-634: the search is requested from the Source
SearchFetch ==
    /\ pc = "fetch_search"
    /\ source_requests' = source_requests + 1
    /\ \E outcome \in Outcomes :
         IF outcome = "ok"
         THEN /\ pc' = "spost"
              /\ pi' = 1
              /\ last_op' = "fetch"
              /\ GovQuiet
              /\ UNCHANGED <<ki, faults>>
         ELSE /\ faults' = faults + 1
              /\ SearchExcept(outcome)
    /\ UNCHANGED <<today, gpc, runs>>
    /\ UNCHANGED <<sub, li, post_count, run_incremental, collected_posts, all_posts,
                   result, record, record_file, max_comment_depth, denied, accumulated>>
    /\ UNCHANGED tvars
    /\ UNCHANGED hvars
    /\ UNCHANGED lvars
    /\ UNCHANGED wvars
    /\ UNCHANGED mvars

\* lines 635-641: a result that is recorded with the same hash is passed over
SearchPost ==
    /\ pc = "spost"
    /\ pi <= Len(CurrentResult)
    /\ IF PostUnchanged(<<sub, "search">>, CurrentResult[pi])
       THEN pc' = "spost" /\ pi' = pi + 1
       ELSE pc' = "scomments" /\ pi' = pi
    /\ last_op' = "filter"
    /\ GovQuiet
    /\ UNCHANGED <<today, gpc, runs>>
    /\ UNCHANGED <<sub, li, ki, post_count, run_incremental, collected_posts,
                   all_posts, result, record, record_file, max_comment_depth,
                   source_requests, denied, accumulated, faults>>
    /\ UNCHANGED tvars
    /\ UNCHANGED hvars
    /\ UNCHANGED lvars
    /\ UNCHANGED wvars
    /\ UNCHANGED mvars

\* line 629: the results are exhausted
SearchDone ==
    /\ pc = "spost"
    /\ pi > Len(CurrentResult)
    /\ pc' = NextKeyword.pc
    /\ ki' = NextKeyword.ki
    /\ last_op' = "exhausted"
    /\ GovQuiet
    /\ UNCHANGED <<today, gpc, runs>>
    /\ UNCHANGED <<sub, li, pi, post_count, run_incremental, collected_posts,
                   all_posts, result, record, record_file, max_comment_depth,
                   source_requests, denied, accumulated, faults>>
    /\ UNCHANGED tvars
    /\ UNCHANGED hvars
    /\ UNCHANGED lvars
    /\ UNCHANGED wvars
    /\ UNCHANGED mvars

\* lines 643-683: the result's comment forest is requested and traversed with
\* the depth limit lowered around each call; an exception leaves it lowered
SearchComments ==
    /\ pc = "scomments"
    /\ source_requests' = source_requests + 1
    /\ LET p == CurrentResult[pi]
           ns == <<sub, "search">>
       IN  \E outcome \in Outcomes :
             IF outcome = "ok"
             THEN \E failing \in FailingSets(p) :
                    LET r == FetchPostComments(Posts[p].forest, "search",
                                               max_comment_depth, PRESERVE_CONTEXT,
                                               failing, today,
                                               record.comments[ns][p], run_incremental)
                    IN  IF r.raised
                        THEN /\ record' = [record EXCEPT !.comments[ns][p] = r.records]
                             /\ max_comment_depth' =
                                  DepthLimit("search", max_comment_depth)
                             /\ faults' = faults + 1
                             /\ SearchExcept("branch")
                             /\ UNCHANGED <<collected_posts, accumulated>>
                        ELSE /\ record' =
                                  [record EXCEPT
                                     !.comments[ns][p] = r.records,
                                     !.posts[ns][p] =
                                         [hash |-> PostHash(p), last_seen |-> today]]
                             /\ collected_posts' =
                                  Append(collected_posts, [id |-> p, comments |-> r.trees])
                             /\ accumulated' = accumulated \cup {p}
                             /\ pc' = "spost"
                             /\ pi' = pi + 1
                             /\ last_op' = "collect"
                             /\ GovQuiet
                             /\ UNCHANGED <<ki, faults, max_comment_depth>>
             ELSE /\ faults' = faults + 1
                  /\ SearchExcept(outcome)
                  /\ UNCHANGED <<record, collected_posts, accumulated,
                                 max_comment_depth>>
    /\ UNCHANGED <<today, gpc, runs>>
    /\ UNCHANGED <<sub, li, post_count, run_incremental, all_posts, result,
                   record_file, denied>>
    /\ UNCHANGED tvars
    /\ UNCHANGED hvars
    /\ UNCHANGED lvars
    /\ UNCHANGED wvars
    /\ UNCHANGED mvars

\* lines 699-712 and 796-799, 781-783: search_keywords saves the record and
\* returns, run_full_crawl takes the posts, pauses and goes to the next subreddit
SearchEnd ==
    /\ pc = "search_end"
    /\ record_file' = SaveRecord(record)
    /\ all_posts' = all_posts \o collected_posts
    /\ collected_posts' = <<>>
    /\ backoff_wait' = IF backoff_wait > Sleep(SUBREDDIT_PAUSE)
                       THEN backoff_wait - Sleep(SUBREDDIT_PAUSE) ELSE 0
    /\ IF sub < Len(SUBREDDITS)
       THEN sub' = sub + 1 /\ li' = 1 /\ pc' = "listing"
       ELSE sub' = sub /\ li' = li /\ pc' = "merge"
    /\ last_op' = "search_end"
    /\ UNCHANGED <<today, rate_limit_file, rate_limit_data, request_count,
                   backoff_seconds, ret, gpc, runs>>
    /\ UNCHANGED <<ki, pi, post_count, run_incremental, result, record,
                   max_comment_depth, source_requests, denied, accumulated, faults>>
    /\ UNCHANGED tvars
    /\ UNCHANGED hvars
    /\ UNCHANGED lvars
    /\ UNCHANGED wvars
    /\ passes' = Append(passes, collected_posts)

\* lines 801-855: the merge, the final save of the rate-limit state, the return
Merge ==
    /\ pc = "merge"
    /\ result' = MergePosts(all_posts, <<>>)
    /\ rate_limit_file' = SaveRateLimitData(rate_limit_data)
    /\ pc' = "done"
    /\ last_op' = "end"
    /\ gpc' = "idle"
    /\ UNCHANGED <<today, rate_limit_data, request_count, backoff_wait,
                   backoff_seconds, ret, runs>>
    /\ UNCHANGED <<sub, li, ki, pi, post_count, run_incremental, collected_posts,
                   all_posts, record, record_file, max_comment_depth, source_requests,
                   denied, accumulated, faults>>
    /\ UNCHANGED tvars
    /\ UNCHANGED hvars
    /\ UNCHANGED lvars
    /\ UNCHANGED wvars
    /\ UNCHANGED mvars

\* The steps of the program.
RunStep ==
    \/ Construct \/ StartCrawl
    \/ ListingCheck \/ ListingFetch \/ PeriodicCheck \/ PostFilter \/ ListingDone
    \/ CommentsFetch \/ CrawlEnd
    \/ SearchCheck \/ SearchFetch \/ SearchPost \/ SearchDone \/ SearchComments
    \/ SearchEnd \/ Merge

Next == RunStep \/ NextDay

Spec == RunInit /\ [][Next]_vars

----------------------------------------------------------------------------
(* Part 4: the merge of run_full_crawl (lines 801-817) on its own, applied  *)
(* to the lists of posts that the two passes over a subreddit may return.   *)

MaxPassLen == 2    \* posts returned by one pass

\* The passes over one subreddit: crawl_subreddit, then search_keywords.
PassKinds == <<"browse", "search">>

\* A comment as _extract_comment_data leaves it in a tree; its id is the
\* post's id with a number.
Node(p, n, depth, replies) ==
    [id |-> <<p, n>>, depth |-> depth, is_submitter |-> FALSE, replies |-> replies]

\* The comment trees a pass may return for post p: comment 1 with reply 3, or
\* comment 1 with reply 4 and comment 2.
PassTrees(p) ==
    { << Node(p, 1, 0, << Node(p, 3, 1, <<>>) >>) >>,
      << Node(p, 1, 0, << Node(p, 4, 1, <<>>) >>), Node(p, 2, 0, <<>>) >> }

\* post_data as a pass returns it: the post's own fields (of which the score
\* may differ from one fetch to the next) and its comment trees.
PassItems ==
    UNION { { [id |-> p, score |-> sc, comments |-> cs] :
                sc \in {MIN_POST_SCORE, MIN_POST_SCORE + 1}, cs \in PassTrees(p) } :
            p \in 1 .. 2 }

PassLists == UNION { [1 .. n -> PassItems] : n \in 0 .. MaxPassLen }

MergeInit ==
    /\ GovIdle
    /\ TreeIdle
    /\ pc = "passes"
    /\ sub = 0
    /\ li = 0
    /\ ki = 0
    /\ pi = 0
    /\ post_count = 0
    /\ run_incremental = FALSE
    /\ collected_posts = <<>>
    /\ all_posts = <<>>
    /\ result = <<>>
    /\ record = EmptyRecord
    /\ record_file = EmptyRecord
    /\ max_comment_depth = MAX_COMMENT_DEPTH
    /\ source_requests = 0
    /\ denied = FALSE
    /\ accumulated = {}
    /\ faults = 0
    /\ passes = <<>>
    /\ HashIdle
    /\ LambdaIdle
    /\ TwitterIdle

\* lines 783-796: a pass returns its posts, which are appended to all_data["posts"]
TakePass ==
    /\ pc = "passes"
    /\ Len(passes) < Len(PassKinds)
    /\ \E posts \in PassLists :
         /\ passes' = Append(passes, posts)
         /\ all_posts' = all_posts \o posts
    /\ last_op' = "pass"
    /\ UNCHANGED <<today, rate_limit_file, rate_limit_data, request_count,
                   backoff_wait, backoff_seconds, ret, gpc, runs>>
    /\ UNCHANGED <<pc, sub, li, ki, pi, post_count, run_incremental, collected_posts,
                   result, record, record_file, max_comment_depth, source_requests,
                   denied, accumulated, faults>>
    /\ UNCHANGED tvars
    /\ UNCHANGED hvars
    /\ UNCHANGED lvars
    /\ UNCHANGED wvars

\* line 801: the loop over the subreddits is left
PassesDone ==
    /\ pc = "passes"
    /\ pc' = "merge"
    /\ last_op' = "passes_done"
    /\ UNCHANGED <<today, rate_limit_file, rate_limit_data, request_count,
                   backoff_wait, backoff_seconds, ret, gpc, runs>>
    /\ UNCHANGED <<sub, li, ki, pi, post_count, run_incremental, collected_posts,
                   all_posts, result, record, record_file, max_comment_depth,
                   source_requests, denied, accumulated, faults>>
    /\ UNCHANGED tvars
    /\ UNCHANGED hvars
    /\ UNCHANGED lvars
    /\ UNCHANGED wvars
    /\ UNCHANGED mvars

MergeNext == TakePass \/ PassesDone \/ Merge

SpecMerge == MergeInit /\ [][MergeNext]_vars

----------------------------------------------------------------------------
(* Part 5: _get_content_hash on its own, applied to two items.              *)

\* Comments as _extract_comment_data returns them (no num_comments).
CommentItems ==
    [id : {1, 2}, score : {0, 1}, edited : BOOLEAN, body : {"x", "y"},
     collected_at : {1, 2}]

\* Posts as _extract_post_data returns them.
PostItems ==
    [id : {1, 2}, score : {0, 1}, edited : BOOLEAN, num_comments : {0, 1},
     content : {"x", "y"}, collected_at : {1}]

HashInit ==
    /\ GovIdle
    /\ TreeIdle
    /\ RunIdle
    /\ content \in (CommentItems \X CommentItems) \cup (PostItems \X PostItems)
    /\ content_hash = <<>>
    /\ LambdaIdle
    /\ TwitterIdle

\* lines 338, 486 and 636: the fingerprints of the two items are computed
HashItems ==
    /\ content_hash = <<>>
    /\ content_hash' = <<GetContentHash(content[1]), GetContentHash(content[2])>>
    /\ last_op' = "hash"
    /\ UNCHANGED <<today, rate_limit_file, rate_limit_data, request_count,
                   backoff_wait, backoff_seconds, ret, gpc, runs>>
    /\ UNCHANGED content
    /\ UNCHANGED lvars
    /\ UNCHANGED wvars
    /\ UNCHANGED tvars
    /\ UNCHANGED rvars
    /\ UNCHANGED mvars

HashNext == HashItems

SpecHash == HashInit /\ [][HashNext]_vars

----------------------------------------------------------------------------
(* Part 6: the Lambda crawler (infra/aws/lambda/collector/index.py).  It    *)
(* runs the same crawl; the record and the rate-limit state are S3 objects, *)
(* and a read of an object may fail.                                        *)

\* What s3.get_object comes to: the object (or NoSuchKey when there is none),
\* or another error.
S3Reads == {"ok", "error"}

\* _load_from_s3 (lines 101-116): the default on NoSuchKey, on any other
\* ClientError and on any other exception.
LoadFromS3(object, default_value, read) ==
    IF read = "error" \/ object = NoFile THEN default_value ELSE object

\* _load_record (lines 130-143); a record with no entries is what an absent
\* object gives.
LambdaLoadRecord(object, read) == LoadFromS3(object, EmptyRecord, read)

\* _load_rate_limit_data (lines 145-167): the object or the default, with the
\* daily counter reset when the current date is later than last_reset.
LambdaLoadRateLimitData(object, day, read) ==
    LoadRateLimitData(LoadFromS3(object, DefaultRateData(day), read), day)

\* The record earlier invocations left: post 1 collected in browse mode, and
\* post 2 collected when it was recent (it is older than the look-back now).
LambdaPriorRecord ==
    [PriorRecord EXCEPT
       !.posts[<<1, "browse">>][2] = [hash |-> PostHash(2), last_seen |-> 0]]

LambdaInit ==
    /\ today = 1
    /\ rate_limit_file \in RunFiles
    /\ rate_limit_data = DefaultRateData(1)
    /\ request_count = 0
    /\ backoff_wait = 0
    /\ backoff_seconds = 0
    /\ ret = TRUE
    /\ last_op = "none"
    /\ gpc = "idle"
    /\ runs = 0
    /\ TreeIdle
    /\ pc = "new"
    /\ sub = 0
    /\ li = 0
    /\ ki = 0
    /\ pi = 0
    /\ post_count = 0
    /\ run_incremental = TRUE
    /\ collected_posts = <<>>
    /\ all_posts = <<>>
    /\ result = <<>>
    /\ record = EmptyRecord
    /\ record_file = LambdaPriorRecord
    /\ max_comment_depth = MAX_COMMENT_DEPTH
    /\ source_requests = 0
    /\ denied = FALSE
    /\ accumulated = {}
    /\ faults = 0
    /\ passes = <<>>
    /\ HashIdle
    /\ LambdaIdle
    /\ TwitterIdle

\* __init__ (lines 71-72 and 90-99): without credentials ValueError is raised;
\* otherwise the rate-limit state and the record are read from S3
LambdaConstruct ==
    /\ pc = "new"
    /\ \E credentials \in BOOLEAN :
         IF credentials
         THEN \E rate_read \in S3Reads, record_read \in S3Reads :
                /\ rate_limit_data' =
                     LambdaLoadRateLimitData(rate_limit_file, today, rate_read)
                /\ request_count' = 0
                /\ backoff_wait' = 0
                /\ record' = LambdaLoadRecord(record_file, record_read)
                /\ committed' = [record |-> record_file, rate |-> rate_limit_file,
                                 reads |-> {rate_read, record_read}]
                /\ last_op' = "load"
                /\ gpc' = "running"
                /\ runs' = runs + 1
                /\ pc' = "run"
         ELSE /\ pc' = "raised"
              /\ last_op' = "config_error"
              /\ UNCHANGED <<rate_limit_data, request_count, backoff_wait, record,
                             gpc, runs, committed>>
    /\ UNCHANGED <<today, rate_limit_file, backoff_seconds, ret>>
    /\ UNCHANGED <<sub, li, ki, pi, post_count, run_incremental, collected_posts,
                   all_posts, result, record_file, max_comment_depth, source_requests,
                   denied, accumulated, faults>>
    /\ UNCHANGED tvars
    /\ UNCHANGED hvars
    /\ UNCHANGED wvars
    /\ UNCHANGED mvars

LambdaNext ==
    \/ LambdaConstruct \/ StartCrawl
    \/ ListingCheck \/ ListingFetch \/ PeriodicCheck \/ PostFilter \/ ListingDone
    \/ CommentsFetch \/ CrawlEnd
    \/ SearchCheck \/ SearchFetch \/ SearchPost \/ SearchDone \/ SearchComments
    \/ SearchEnd \/ Merge
    \/ NextDay

SpecLambda == LambdaInit /\ [][LambdaNext]_vars

----------------------------------------------------------------------------
(* Part 7: the Twitter collector (infra/aws/lambda/collector/twitter/       *)
(* index.py), collect_tweets.  tw_pc: "start" (constructed), "query" (the   *)
(* head of the loop over the queries, line 171), "try" (the head of the     *)
(* retry loop, line 182), "done" (after the loop, line 303).                *)

MaxQueries == 3    \* queries in self.search_queries

LAMBDA_TIMEOUT_SECONDS == 900
LAMBDA_TIMEOUT_BUFFER == 120
MAX_RETRIES == 1
QUERY_PAUSE == 2
RATE_LIMIT_RESET_DEFAULT == 900
RESET_BUFFER == 5

\* What a call of _search_recent_tweets comes to: a list of tweets,
\* TooManyRequests, or another TweepyException.
SearchOutcomes == {"ok", "rate_limit", "error"}

\* How long a call of _search_recent_tweets may take, in seconds.
SearchDurations == {1, 400}

\* The wait until the rate limit resets: from the x-rate-limit-reset header,
\* or the default.
ResetSeconds == {10, RATE_LIMIT_RESET_DEFAULT}

\* _should_stop_collection (lines 119-141)
ShouldStopCollection(seconds) ==
    LAMBDA_TIMEOUT_SECONDS - seconds < LAMBDA_TIMEOUT_BUFFER

\* lines 298-301: after the retry loop of a query that did not succeed, the
\* collection stops if self.rate_limit_hit is set, else the next query is taken
AfterFailedQuery(hit) ==
    IF hit
    THEN tw_pc' = "done" /\ qi' = qi
    ELSE tw_pc' = "query" /\ qi' = qi + 1

TwitterInit ==
    /\ GovIdle
    /\ TreeIdle
    /\ RunIdle
    /\ passes = <<>>
    /\ HashIdle
    /\ LambdaIdle
    /\ tw_pc = "start"
    /\ qi = 0
    /\ retry_count = 0
    /\ rate_limit_hit = FALSE
    /\ elapsed = 0
    /\ queries_processed = 0
    /\ tried = <<>>

\* lines 162-169
CollectStart ==
    /\ tw_pc = "start"
    /\ tw_pc' = "query"
    /\ qi' = 1
    /\ elapsed' = 0
    /\ queries_processed' = 0
    /\ tried' = [q \in 1 .. MaxQueries |-> <<>>]
    /\ UNCHANGED <<retry_count, rate_limit_hit>>
    /\ UNCHANGED <<gvars, tvars, rvars, mvars, hvars, lvars>>

\* lines 171-180: the next query, unless the timeout is near
QueryStart ==
    /\ tw_pc = "query"
    /\ qi <= MaxQueries
    /\ IF ShouldStopCollection(elapsed)
       THEN tw_pc' = "done" /\ UNCHANGED retry_count
       ELSE tw_pc' = "try" /\ retry_count' = 0
    /\ UNCHANGED <<qi, rate_limit_hit, elapsed, queries_processed, tried>>
    /\ UNCHANGED <<gvars, tvars, rvars, mvars, hvars, lvars>>

\* line 171: no query is left
QueriesDone ==
    /\ tw_pc = "query"
    /\ qi > MaxQueries
    /\ tw_pc' = "done"
    /\ UNCHANGED <<qi, retry_count, rate_limit_hit, elapsed, queries_processed, tried>>
    /\ UNCHANGED <<gvars, tvars, rvars, mvars, hvars, lvars>>

\* lines 183-208: the search returns tweets
SearchOk ==
    /\ tw_pc = "try"
    /\ \E duration \in SearchDurations :
         elapsed' = elapsed + duration + (IF rate_limit_hit THEN 0 ELSE QUERY_PAUSE)
    /\ tried' = [tried EXCEPT ![qi] = Append(@, "ok")]
    /\ queries_processed' = queries_processed + 1
    /\ tw_pc' = "query"
    /\ qi' = qi + 1
    /\ UNCHANGED <<retry_count, rate_limit_hit>>
    /\ UNCHANGED <<gvars, tvars, rvars, mvars, hvars, lvars>>

\* lines 210-292 and 298-301: the search raises TooManyRequests
SearchRateLimited ==
    /\ tw_pc = "try"
    /\ tried' = [tried EXCEPT ![qi] = Append(@, "rate_limit")]
    /\ rate_limit_hit' = TRUE
    /\ \E duration \in SearchDurations, rate_limit_reset_seconds \in ResetSeconds :
         LET now == elapsed + duration
             time_remaining == LAMBDA_TIMEOUT_SECONDS - now - LAMBDA_TIMEOUT_BUFFER
         IN  IF \/ retry_count >= MAX_RETRIES
                \/ ShouldStopCollection(now)
                \/ ~(rate_limit_reset_seconds < time_remaining)
             THEN /\ elapsed' = now
                  /\ AfterFailedQuery(TRUE)
                  /\ UNCHANGED retry_count
             ELSE /\ elapsed' = now + rate_limit_reset_seconds + RESET_BUFFER
                  /\ retry_count' = retry_count + 1
                  /\ tw_pc' = "try"
                  /\ qi' = qi
    /\ UNCHANGED queries_processed
    /\ UNCHANGED <<gvars, tvars, rvars, mvars, hvars, lvars>>

\* lines 294-301: the search raises another TweepyException
SearchError ==
    /\ tw_pc = "try"
    /\ tried' = [tried EXCEPT ![qi] = Append(@, "error")]
    /\ \E duration \in SearchDurations : elapsed' = elapsed + duration
    /\ AfterFailedQuery(rate_limit_hit)
    /\ UNCHANGED <<retry_count, rate_limit_hit, queries_processed>>
    /\ UNCHANGED <<gvars, tvars, rvars, mvars, hvars, lvars>>

TwitterNext ==
    \/ CollectStart \/ QueryStart \/ QueriesDone
    \/ SearchOk \/ SearchRateLimited \/ SearchError

SpecTwitter == TwitterInit /\ [][TwitterNext]_vars

----------------------------------------------------------------------------
(* Claims about the comment tree *)

\* The nodes of a list of returned trees, each with the depth of the node it
\* hangs under (-1 for a top-level comment).
RECURSIVE OutNodes(_, _)
OutNodes(trees, pdepth) ==
    IF trees = <<>> THEN {}
    ELSE { [id |-> Head(trees).id, depth |-> Head(trees).depth, pdepth |-> pdepth] }
         \cup OutNodes(Head(trees).replies, Head(trees).depth)
         \cup OutNodes(Tail(trees), pdepth)

OutIds(trees) == { n.id : n \in OutNodes(trees, -1) }

\* The depth of a comment in the Source's forest (0: a reply to the post).
RECURSIVE SourceDepth(_, _)
SourceDepth(f, c) == IF f[c].parent = 0 THEN 0 ELSE 1 + SourceDepth(f, f[c].parent)

\* The comment and its ancestors.
RECURSIVE Lineage(_, _)
Lineage(f, c) == IF c = 0 THEN {} ELSE {c} \cup Lineage(f, f[c].parent)

Descendants(f, c) == { d \in 1 .. Len(f) : d # c /\ c \in Lineage(f, d) }

\* The place of a comment among the replies of its parent (1: the first).
SiblingPos(f, c) == Cardinality({ d \in 1 .. c : f[d].parent = f[c].parent })

\* Some keyword occurs in the text, letter case ignored.
ContainsKeyword(text) ==
    \E n \in 1 .. Len(KEYWORDS) :
       \E i \in 0 .. (Len(text) - Len(KEYWORDS[n])) :
          \A j \in 1 .. Len(KEYWORDS[n]) :
             LowerChar(text[i + j]) = LowerChar(KEYWORDS[n][j])

\* The depth limit and top-level limit the claims speak of, per mode.
ClaimedDepthLimit(mode) == IF mode = "search" THEN 1 ELSE 4

ClaimedFanout(mode, c) ==
    IF forest[c].parent # 0 THEN 10 ELSE IF mode = "search" THEN 10 ELSE 20

\* C7: every node of a returned tree has a recorded depth of at most the limit in
\* force (4 in browse mode, 1 in search mode), top-level comments have depth 0,
\* and a node's depth is its parent's depth plus one (its depth in the Source).
C7_DepthBound ==
    tmode # "none" =>
       \A n \in OutNodes(comments_out, -1) :
          /\ n.depth <= ClaimedDepthLimit(tmode)
          /\ n.depth = n.pdepth + 1
          /\ n.depth = SourceDepth(forest, n.id)

\* C7 witness: browse mode returned a node at depth 4 of a chain that goes deeper.
C7_Witness ==
    /\ tmode = "browse"
    /\ \E n \in OutNodes(comments_out, -1) : n.depth = MAX_COMMENT_DEPTH
    /\ \E c \in 1 .. Len(forest) : SourceDepth(forest, c) > MAX_COMMENT_DEPTH

\* The comment is within the depth, fan-out and score bounds of the traversal.
InBounds(mode, c) ==
    /\ SourceDepth(forest, c) <= ClaimedDepthLimit(mode)
    /\ SiblingPos(forest, c) <= ClaimedFanout(mode, c)
    /\ forest[c].score >= (IF forest[c].parent = 0 THEN -5 ELSE -8)

\* C8 (as claimed): after a non-incremental traversal every comment of the
\* post's author that is, like all its ancestors, within the depth, fan-out and
\* score bounds is in the returned trees, whatever the bodies say.
C8_AuthorRepliesAlwaysKept ==
    (tmode # "none" /\ ~tincr) =>
       \A c \in 1 .. Len(forest) :
          (forest[c].is_submitter /\ \A a \in Lineage(forest, c) : InBounds(tmode, a))
             => c \in OutIds(comments_out)

Depth2NoKeyword ==
    { c \in 1 .. Len(forest) :
        SourceDepth(forest, c) = 2 /\ ~ContainsKeyword(forest[c].body) }

\* C10 (as claimed): with PRESERVE_CONTEXT a depth-2 comment without a keyword is
\* returned if and only if its depth-1 parent is.
C10_Depth2IffParent ==
    (tmode # "none" /\ preserve_context) =>
       \A c \in Depth2NoKeyword :
          c \in OutIds(comments_out) <=> forest[c].parent \in OutIds(comments_out)

\* C10 (amended): with PRESERVE_CONTEXT a depth-2 comment without a keyword is
\* returned if and only if its depth-1 parent is returned and the comment is
\* within the depth limit of the traversal (browse mode), among the first 10
\* replies of its parent, scored at least -8, and not, in incremental mode,
\* recorded with its present hash.
C10_Depth2IffParentInBounds ==
    [][ (tnow' = tnow + 1 /\ preserve_context) =>
           \A c \in Depth2NoKeyword :
              c \in OutIds(comments_out')
                 <=> /\ forest[c].parent \in OutIds(comments_out')
                     /\ tmode' = "browse"
                     /\ SiblingPos(forest, c) <= 10
                     /\ forest[c].score >= -8
                     /\ ~(/\ tincr'
                          /\ comment_records[c] # NoRec
                          /\ comment_records[c].hash =
                                <<"edited", forest[c].edited, "id", c,
                                  "score", forest[c].score>>)
      ]_vars

\* C10 witness: a depth-2 comment without a keyword was returned under its parent.
C10_Witness ==
    /\ tmode = "browse"
    /\ preserve_context
    /\ \E c \in Depth2NoKeyword :
         /\ ~forest[c].is_submitter
         /\ c \in OutIds(comments_out)
         /\ forest[c].parent \in OutIds(comments_out)

\* The comments the record holds with the hash they have at the Source now.
RecordedUnchanged ==
    { c \in 1 .. Len(forest) :
        /\ comment_records[c] # NoRec
        /\ comment_records[c].hash =
              <<"edited", forest[c].edited, "id", c, "score", forest[c].score>> }

\* C11: in an incremental traversal a comment that the record holds with its
\* present hash is not returned and its record entry is left as it is, and the
\* same goes for every comment below it.
C11_UnchangedSubtreeUntouched ==
    [][ (tnow' = tnow + 1 /\ tincr') =>
           \A c \in RecordedUnchanged :
              \A d \in {c} \cup Descendants(forest, c) :
                 /\ d \notin OutIds(comments_out')
                 /\ comment_records'[d] = comment_records[d]
      ]_vars

\* C11 witness: the second, incremental, traversal returned an edited comment and
\* passed over an unchanged one recorded by the first, below which a comment
\* within the bounds has never been recorded.
C11_Witness ==
    /\ tnow = 2
    /\ tincr
    /\ tmode = "browse"
    /\ comments_out # <<>>
    /\ \E c \in RecordedUnchanged :
         /\ comment_records[c].last_seen = 1
         /\ c \notin OutIds(comments_out)
         /\ \E d \in Descendants(forest, c) :
              /\ comment_records[d] = NoRec
              /\ forest[d].score >= 0
              /\ SourceDepth(forest, d) <= MAX_COMMENT_DEPTH

\* C23: with PRESERVE_CONTEXT off, a returned comment below the top level is
\* by the post's author or has a keyword in its body.
C23_NestedFilteredWithoutContext ==
    (tmode # "none" /\ ~preserve_context) =>
       \A c \in OutIds(comments_out) :
          forest[c].parent # 0 =>
             forest[c].is_submitter \/ ContainsKeyword(forest[c].body)

----------------------------------------------------------------------------
(* Claims about the run *)

PostIdsOf(posts) == { posts[i].id : i \in 1 .. Len(posts) }

\* C2: once a _check_rate_limit call of the run has returned False, no request
\* is sent to the Source any more, every later _check_rate_limit call returns
\* False, and the posts collected before are in the returned result.
C2_NoRequestAfterDenial ==
    /\ [][ denied => /\ source_requests' = source_requests
                     /\ (last_op' = "check" => ret' = FALSE) ]_vars
    /\ []( (denied /\ pc = "done") => accumulated \subseteq PostIdsOf(result) )

\* C2 witness: a run that had collected posts was denied, went on to the last
\* subreddit and returned.
C2_Witness ==
    /\ pc = "done"
    /\ denied
    /\ sub = Len(SUBREDDITS)
    /\ source_requests > 1
    /\ accumulated # {}
    /\ accumulated \subseteq PostIdsOf(result)

UnsavedRoots ==
    { x \in Namespaces \X PostIds :
        \/ record.posts[x[1]][x[2]] # record_file.posts[x[1]][x[2]]
        \/ record.comments[x[1]][x[2]] # record_file.comments[x[1]][x[2]] }

\* C12: the record is persisted after every collected root item, so that at
\* no point of a run more than one root item's record updates are unsaved.
C12_SavedAfterEveryRoot ==
    /\ [][last_op' = "collect" => record_file' = record']_vars
    /\ [](gpc = "running" => Cardinality(UnsavedRoots) <= 1)

\* C13: when the traversal of a post's comments fails at a reply, only that
\* branch is lost: the post is still collected, with the reply's parent.
C13_BranchFailureKeepsPost ==
    [][ last_op' = "branch_fail" =>
          /\ Len(collected_posts') = Len(collected_posts) + 1
          /\ 1 \in OutIds(collected_posts'[Len(collected_posts')].comments)
      ]_vars

\* C14: an access error (HTTP 403 or 404) in one listing type or keyword
\* abandons only that one: the run goes on with the next listing type or
\* the next keyword.
C14_AccessErrorSkipsOne ==
    [][ last_op' = "access_fail" =>
          IF pc \in {"fetch_listing", "comments"}
          THEN pc' = NextListing.pc /\ li' = NextListing.li
          ELSE pc' = NextKeyword.pc /\ ki' = NextKeyword.ki
      ]_vars

\* C15: every request to the Source follows an admission of its own, so the
\* requests issued never outnumber the admitted calls (request_count).
C15_RequestsWithinAdmissions == pc # "new" => source_requests <= request_count

\* How far the run has come: a number that every step of the program raises.
\* ListSpan, KeySpan and SubSpan are the numbers taken up by one listing type,
\* one keyword and one subreddit.
ListSpan == 3 * (POSTS_PER_LISTING + 1) + 3

KeySpan == 2 * (SEARCH_LIMIT + 1) + 3

SubSpan == Len(LISTING_TYPES) * ListSpan + Len(KEYWORDS) * KeySpan + 2

ProgressEnd == Len(SUBREDDITS) * SubSpan + 3

Progress ==
    LET browse == (sub - 1) * SubSpan + (li - 1) * ListSpan + 2
        search == (sub - 1) * SubSpan + Len(LISTING_TYPES) * ListSpan
                     + (ki - 1) * KeySpan + 3
    IN  CASE pc = "new" -> 0
          [] pc = "run" -> 1
          [] pc = "listing" -> browse
          [] pc = "fetch_listing" -> browse + 1
          [] pc = "post" -> browse + 3 * pi - 1
          [] pc = "filter" -> browse + 3 * pi
          [] pc = "comments" -> browse + 3 * pi + 1
          [] pc = "crawl_end" -> (sub - 1) * SubSpan + Len(LISTING_TYPES) * ListSpan + 2
          [] pc = "search" -> search
          [] pc = "fetch_search" -> search + 1
          [] pc = "spost" -> search + 2 * pi
          [] pc = "scomments" -> search + 2 * pi + 1
          [] pc = "search_end" -> sub * SubSpan + 1
          [] pc = "merge" -> ProgressEnd - 1
          [] OTHER -> ProgressEnd

\* C20: whatever the Source answers, the run ends.  Every step of the program
\* raises Progress, which never exceeds ProgressEnd, so no run goes on for
\* ever; at ProgressEnd run_full_crawl has returned (pc = "done") or the
\* constructor has raised for missing credentials, and then no request to the
\* Source and no admission was made.
C20_RunReturns ==
    /\ [][today' = today => Progress' > Progress]_vars
    /\ [](Progress <= ProgressEnd)
    /\ [](Progress = ProgressEnd => pc \in {"done", "raised"})
    /\ [](pc = "raised" => source_requests = 0 /\ request_count = 0 /\ gpc = "idle")

C20_Witness ==
    /\ pc = "done"
    /\ faults = MaxFaults
    /\ source_requests > 1
    /\ result # <<>>

\* The first _check_rate_limit call of the run was denied: a call was denied
\* and none has been admitted.
FirstCallDenied == pc # "new" /\ denied /\ request_count = 0

\* C21: when the first _check_rate_limit call of a run is denied, the run
\* returns at once: no request goes to the Source, the record's posts and
\* comments stay as they are, no further pass or subreddit is started, and
\* the result holds no post.
C21_FirstDenialEndsRun ==
    [][ FirstCallDenied =>
          /\ source_requests' = 0
          /\ record'.posts = record.posts
          /\ record'.comments = record.comments
          /\ pc' \in {"crawl_end", "merge", "done"}
          /\ sub' = sub
          /\ result' = <<>>
      ]_vars

\* C24: in an incremental crawl_subreddit the scan of a listing is stopped
\* only by a post that a prior run recorded with the same fingerprint (the
\* record file holds what prior runs wrote until the listings are done).
C24_EarlyStopOnlyOnPriorRun ==
    [][ (/\ last_op' = "filter"
         /\ pc \in {"post", "filter"}
         /\ pc' \notin {"post", "comments"})
           => LET ns == <<sub, "browse">>
                  p == CurrentListing[pi]
              IN  /\ record_file.posts[ns][p] # NoPostRec
                  /\ record_file.posts[ns][p].hash = PostHash(p)
      ]_vars

\* C26: search_keywords returns with MAX_COMMENT_DEPTH as it found it, so
\* outside the keyword pass (in every browse traversal, at the merge and at
\* the end of the run) the depth limit is the configured one.
C26_DepthLimitRestored ==
    pc \in {"listing", "fetch_listing", "post", "filter", "comments",
            "crawl_end", "merge", "done"}
       => max_comment_depth = MAX_COMMENT_DEPTH

\* The comments of post p under namespace ns whose record entry was created
\* or updated since the start of the model's time (day 1) and is persisted.
RecordedInRun(ns, p) ==
    { c \in 1 .. Len(Posts[p].forest) :
        /\ record_file.comments[ns][p][c] # NoRec
        /\ record_file.comments[ns][p][c].last_seen >= 1 }

\* C27: at the end of a process's run, every comment whose record entry the
\* run created or updated and persisted is in the reply tree of its post in
\* the returned result.
C27_RecordedImpliesEmitted ==
    (pc = "done" /\ runs = 1) =>
       \A ns \in Namespaces : \A p \in PostIds : \A c \in RecordedInRun(ns, p) :
          \E i \in 1 .. Len(result) :
             /\ result[i].id = p
             /\ c \in OutIds(result[i].comments)

\* The posts and the comments that a record holds an entry for.
RecordedPosts(rec) ==
    { x \in Namespaces \X PostIds : rec.posts[x[1]][x[2]] # NoPostRec }

RecordedComments(rec) ==
    UNION { { <<x[1], x[2], c>> :
                c \in { d \in 1 .. Len(Posts[x[2]].forest) :
                          rec.comments[x[1]][x[2]][d] # NoRec } } :
            x \in Namespaces \X PostIds }

\* C29: when a read of the record or of the rate-limit state failed at the
\* construction of the Lambda crawler, the record persisted at the end of the
\* run still holds every post and comment it held before, and the persisted
\* count of the current day is not lower than it was before.
C29_FailedReadKeepsProgress ==
    (pc = "done" /\ committed # <<>> /\ "error" \in committed.reads) =>
       /\ RecordedPosts(committed.record) \subseteq RecordedPosts(record_file)
       /\ RecordedComments(committed.record) \subseteq RecordedComments(record_file)
       /\ (/\ committed.rate # NoFile
           /\ committed.rate.last_reset = today)
             => /\ rate_limit_file # NoFile
                /\ rate_limit_file.daily_requests >= committed.rate.daily_requests

----------------------------------------------------------------------------
(* Claims about the merge *)

IdsOf(seq) == [i \in 1 .. Len(seq) |-> seq[i].id]

NoRepeat(seq) == \A i, j \in 1 .. Len(seq) : seq[i] = seq[j] => i = j

\* The elements of seq in the order of their first occurrence.
RECURSIVE Distinct(_, _)
Distinct(seq, acc) ==
    IF seq = <<>> THEN acc
    ELSE IF \E i \in 1 .. Len(acc) : acc[i] = Head(seq)
         THEN Distinct(Tail(seq), acc)
         ELSE Distinct(Tail(seq), Append(acc, Head(seq)))

\* The ids of the comments of a list of trees, at every depth.
RECURSIVE CommentIdSeq(_)
CommentIdSeq(trees) ==
    IF trees = <<>> THEN <<>>
    ELSE <<Head(trees).id>> \o CommentIdSeq(Head(trees).replies)
                            \o CommentIdSeq(Tail(trees))

CommentIdSet(trees) ==
    { CommentIdSeq(trees)[i] : i \in 1 .. Len(CommentIdSeq(trees)) }

\* No post id twice, and within a post no comment id twice.
UniquePass(posts) ==
    /\ NoRepeat(IdsOf(posts))
    /\ \A i \in 1 .. Len(posts) : NoRepeat(CommentIdSeq(posts[i].comments))

\* The positions in all_posts at which post id occurs.
Occurrences(id) == { j \in 1 .. Len(all_posts) : all_posts[j].id = id }

FirstOccurrence(id) == CHOOSE j \in Occurrences(id) : \A k \in Occurrences(id) : j <= k

\* The top-level comments of all occurrences of post id, first occurrence first.
RECURSIVE TopLevelOf(_, _)
TopLevelOf(id, j) ==
    IF j > Len(all_posts) THEN <<>>
    ELSE (IF all_posts[j].id = id THEN all_posts[j].comments ELSE <<>>)
         \o TopLevelOf(id, j + 1)

\* Of a list of comments, the first with each id.
RECURSIVE FirstById(_, _)
FirstById(cs, acc) ==
    IF cs = <<>> THEN acc
    ELSE IF \E i \in 1 .. Len(acc) : acc[i].id = Head(cs).id
         THEN FirstById(Tail(cs), acc)
         ELSE FirstById(Tail(cs), Append(acc, Head(cs)))

C17_FirstOccurrenceWins ==
    pc = "done" =>
       /\ IdsOf(result) = Distinct(IdsOf(all_posts), <<>>)
       /\ \A i \in 1 .. Len(result) :
             result[i].score = all_posts[FirstOccurrence(result[i].id)].score

C17_Witness ==
    /\ pc = "done"
    /\ Len(passes) = 2
    /\ Len(passes[1]) = 1
    /\ Len(passes[2]) = 2
    /\ passes[2][2].id = passes[1][1].id
    /\ passes[2][2].score # passes[1][1].score
    /\ passes[2][1].id # passes[1][1].id
    /\ IdsOf(result) = <<passes[1][1].id, passes[2][1].id>>
    /\ result[1].score = passes[1][1].score

\* C18 (as claimed): the comments of a merged post are the union, by comment
\* id at every depth, of the comments of its occurrences, none twice.
C18_UnionAtAnyDepth ==
    pc = "done" =>
       \A i \in 1 .. Len(result) :
          /\ CommentIdSet(result[i].comments) =
                UNION { CommentIdSet(all_posts[j].comments) :
                           j \in Occurrences(result[i].id) }
          /\ NoRepeat(CommentIdSeq(result[i].comments))

\* C18 (amended): the top-level comments of a merged post are those of its
\* occurrences, one per comment id in the order of first occurrence, each
\* with the replies it has in the occurrence that brought it first.
C18_UnionOfTopLevel ==
    pc = "done" =>
       \A i \in 1 .. Len(result) :
          result[i].comments = FirstById(TopLevelOf(result[i].id, 1), <<>>)

C18_Witness ==
    /\ pc = "done"
    /\ Len(passes) = 2
    /\ Len(passes[1]) = 1
    /\ Len(result) = 1
    /\ \E j \in 1 .. Len(passes[2]) :
          /\ passes[2][j].id = passes[1][1].id
          /\ <<1, 4>> \in CommentIdSet(passes[2][j].comments)
    /\ CommentIdSet(result[1].comments) = {<<1, 1>>, <<1, 3>>, <<1, 2>>}

\* C28: the list a crawl_subreddit call returns holds no post id twice,
\* whether the call is incremental or not.
C28_BrowsePassUnique ==
    last_op = "crawl_end" => NoRepeat(IdsOf(passes[Len(passes)]))

----------------------------------------------------------------------------
(* Claims about the fingerprint *)

\* The fields of an item that the fingerprint is meant to depend on.
HashedFields(item) ==
    [k \in DOMAIN item \cap {"id", "score", "edited", "num_comments"} |-> item[k]]

\* C19: two items get the same fingerprint exactly if they agree on id,
\* score, edited and (for posts) num_comments, whatever their other fields.
C19_HashOfSelectedFields ==
    content_hash # <<>> =>
       (content_hash[1] = content_hash[2]) =
          (HashedFields(content[1]) = HashedFields(content[2]))

\* Two posts that differ in the edit state only, and in their text.
C19_Witness ==
    /\ content_hash # <<>>
    /\ "num_comments" \in DOMAIN content[1]
    /\ content[1].id = content[2].id
    /\ content[1].score = content[2].score
    /\ content[1].num_comments = content[2].num_comments
    /\ content[1].edited # content[2].edited
    /\ content[1].content # content[2].content
    /\ content_hash[1] # content_hash[2]

----------------------------------------------------------------------------
(* Claims about the Twitter collector *)

\* The outcome of the call of _search_recent_tweets made in this step.
LastTried == tried'[qi][Len(tried'[qi])]

\* C30: a query whose search fails with an error other than a rate limit is
\* given up without a retry and the loop goes on to the next query, whatever
\* happened to earlier queries; the collection stops in the retry loop only
\* on a rate limit.
C30_OtherErrorSkipsQueryOnly ==
    [][ tw_pc = "try" =>
          /\ LastTried = "error" => (tw_pc' = "query" /\ qi' = qi + 1)
          /\ tw_pc' = "done" => LastTried = "rate_limit"
      ]_vars

----------------------------------------------------------------------------
(* Claims about the governor *)

\* By how much the in-memory daily_requests is ahead of the persisted count of
\* the same day (nothing persisted counts as 0).
PersistedLag ==
    IF rate_limit_file = NoFile THEN rate_limit_data.daily_requests
    ELSE rate_limit_data.daily_requests - rate_limit_file.daily_requests

\* C22: while a process runs, its daily_requests is at most 9 ahead of the
\* count persisted for the same day, and when the run has ended the persisted
\* state is the in-memory state.
C22_PersistedLagBounded ==
    /\ (/\ gpc = "running"
        /\ rate_limit_file # NoFile => rate_limit_file.last_reset = rate_limit_data.last_reset)
          => PersistedLag <= SAVE_EVERY - 1
    /\ last_op = "end" => rate_limit_file = rate_limit_data

C22_Witness ==
    /\ gpc = "running"
    /\ rate_limit_file # NoFile
    /\ rate_limit_file.last_reset = rate_limit_data.last_reset
    /\ rate_limit_file.daily_requests > 0
    /\ PersistedLag = SAVE_EVERY - 1


\* C1: with no backoff pending, _check_rate_limit admits and counts one request
\* while daily_requests is below MAX_REQUESTS_PER_DAY, and denies without
\* counting once it has reached it; daily_requests never exceeds the cap.
C1_AdmitBelowCapDenyAtCap ==
    /\ [](rate_limit_data.daily_requests <= MAX_REQUESTS_PER_DAY)
    /\ [][ (last_op' = "check" /\ backoff_wait = 0) =>
              IF rate_limit_data.daily_requests < MAX_REQUESTS_PER_DAY
              THEN /\ ret' = TRUE
                   /\ rate_limit_data'.daily_requests = rate_limit_data.daily_requests + 1
              ELSE /\ ret' = FALSE
                   /\ rate_limit_data'.daily_requests = rate_limit_data.daily_requests
         ]_vars

\* C1 witness: a process that loaded cap-1 was admitted once and then denied.
C1_Witness ==
    /\ last_op = "check"
    /\ ret = FALSE
    /\ request_count = 1
    /\ rate_limit_data.daily_requests = MAX_REQUESTS_PER_DAY

\* C3 (as claimed): whenever the rate-limit state carries a last_reset of an
\* earlier calendar day and a positive count, the next _check_rate_limit resets
\* the count to 0 and then counts the call (so the count is 1 and the call is
\* admitted), also in a process that was already running at midnight; and a
\* process started on the new day starts from 0.
C3_CheckResetsOnNewDay ==
    [][ /\ (last_op' = "load" /\ gpc = "idle" /\ rate_limit_file # NoFile
              /\ today > rate_limit_file.last_reset)
           => rate_limit_data'.daily_requests = 0
        /\ (last_op' = "check" /\ gpc = "running" /\ backoff_wait = 0
              /\ today > rate_limit_data.last_reset
              /\ rate_limit_data.daily_requests > 0)
           => (ret' = TRUE /\ rate_limit_data'.daily_requests = 1)
      ]_vars

C25_DocumentedSequence ==
    [][ last_op' = "throttle" =>
          LET k == rate_limit_data'.rate_limit_hits
              base == IF k <= 4 THEN BACKOFF_BASE * Pow2(k - 1)
                      ELSE BACKOFF_BASE * MAX_BACKOFF_MULTIPLIER
          IN  /\ k = rate_limit_data.rate_limit_hits + 1
              /\ backoff_seconds' \in base .. base + MAX_JITTER
      ]_vars

====
